---- MODULE Spec2Model ----
(***************************************************************************)
(* Model of career_bot (src/main.py): the startup of the process           *)
(* (Me.__init__, the UI build and launch), the chat loop Me.chat with its  *)
(* tool dispatch Me.handle_tool_calls, the two tools and the notification  *)
(* sink push.                                                              *)
(***************************************************************************)
EXTENDS Naturals, Sequences, FiniteSets, TLC

VARIABLES
    fs,         \* the files under me/ at startup: Profile.pdf and summary.txt
    phase,      \* position of the __main__ script
    me,         \* the fields of the Me instance the chat reads
    pc,         \* per chat turn: position in Me.chat
    history,    \* per chat turn: the history list the caller passed in
    usermsg,    \* per chat turn: the message argument the caller passed in
    messages,   \* per chat turn: the local list `messages`
    response,   \* per chat turn: the local `response`
    idx,        \* per chat turn: position of the for loop of handle_tool_calls
    results,    \* per chat turn: the local list `results`
    err,        \* per chat turn: the exception that left chat, "none" otherwise
    answer,     \* per chat turn: the value chat returned
    sent,       \* per chat turn: the message sequences of the requests sent so far
    received,   \* per chat turn: the responses the endpoint gave to them
    pushed      \* per chat turn: the HTTP posts push made while it ran

vars == <<fs, phase, me, pc, history, usermsg, messages, response, idx,
          results, err, answer, sent, received, pushed>>

(***************************************************************************)
(* Bounds of the model.                                                    *)
(***************************************************************************)
\* responses of the endpoint to one chat turn that the model follows; the turn
\* itself sends a request whenever it stands at the top of its loop
MaxRounds == 2
\* tool calls in one response
MaxCalls == 2
\* the same two bounds for the runs with two concurrent turns
ConcRounds == 2
ConcCalls == 1
\* tool calls in one response in the runs over every tool name and argument text
DispCalls == 1
\* the same two bounds for the runs that follow the loop for more rounds
LoopRounds == 3
LoopCalls == 2
\* the same two bounds for the runs in which the turn's thread keeps running
FairRounds == 3
FairCalls == 1

Turns == {"t1", "t2"}
NONE == "None"

(***************************************************************************)
(* json.loads on the argument texts the endpoint may send, json.dumps on   *)
(* the values a tool may return.                                           *)
(***************************************************************************)
ArgTexts ==
    { "{\"question\": \"q\"}",
      "{\"email\": \"a@b.com\"}",
      "{\"email\": \"a@b.com\", \"name\": \"Ann\", \"notes\": \"hi\"}",
      "{\"message\": \"m\"}",
      "{}",
      "[]",
      "{\"question\": " }

\* kind "error" is json.JSONDecodeError; "dict" carries the parsed object
JsonLoads(text) ==
    CASE text = "{\"question\": \"q\"}" ->
            [kind |-> "dict", value |-> [question |-> "q"]]
      [] text = "{\"email\": \"a@b.com\"}" ->
            [kind |-> "dict", value |-> [email |-> "a@b.com"]]
      [] text = "{\"email\": \"a@b.com\", \"name\": \"Ann\", \"notes\": \"hi\"}" ->
            [kind |-> "dict",
             value |-> [email |-> "a@b.com", name |-> "Ann", notes |-> "hi"]]
      [] text = "{\"message\": \"m\"}" ->
            [kind |-> "dict", value |-> [message |-> "m"]]
      [] text = "{}" -> [kind |-> "dict", value |-> <<>>]
      [] text = "[]" -> [kind |-> "list", value |-> <<>>]
      [] OTHER -> [kind |-> "error", value |-> <<>>]

\* the values the callables of the module can return, as tagged records
EmptyResult == [tag |-> "dict", recorded |-> NONE]
RecordedOk == [tag |-> "dict", recorded |-> "ok"]
NoneResult == [tag |-> "None", recorded |-> NONE]
MeObject == [tag |-> "Me", recorded |-> NONE]

\* json.dumps: "error" stands for TypeError (not JSON serializable)
JsonDumps(result) ==
    CASE result = RecordedOk -> "{\"recorded\": \"ok\"}"
      [] result = EmptyResult -> "{}"
      [] result = NoneResult -> "null"
      [] OTHER -> "error"

(***************************************************************************)
(* The module globals a tool name can hit (globals().get(tool_name)).      *)
(***************************************************************************)
RegisteredTools == {"record_unknown_question", "record_user_details"}

ToolNames ==
    RegisteredTools \cup {"push", "tools", "json", "os", "Me", "send_email"}

\* what globals().get(name) yields: a function, a class, a module, a
\* non-empty list, or None for a name the module does not define
GlobalsGet(name) ==
    CASE name \in {"record_user_details", "record_unknown_question", "push"} ->
            [kind |-> "function", name |-> name]
      [] name = "Me" -> [kind |-> "class", name |-> name]
      [] name \in {"json", "os"} -> [kind |-> "module", name |-> name]
      [] name = "tools" -> [kind |-> "list", name |-> name]
      [] OTHER -> [kind |-> NONE, name |-> name]

\* truth value of `tool` in `tool(**arguments) if tool else {}`
Truthy(tool) == tool.kind # NONE

\* parameter names of the three functions: required, and accepted
Required(name) ==
    CASE name = "record_user_details" -> {"email"}
      [] name = "record_unknown_question" -> {"question"}
      [] name = "push" -> {"message"}
      [] OTHER -> {}

Accepted(name) ==
    CASE name = "record_user_details" -> {"email", "name", "notes"}
      [] name = "record_unknown_question" -> {"question"}
      [] name = "push" -> {"message"}
      [] OTHER -> {}

\* whether tool(**arguments) binds: a callable, a mapping, every required
\* parameter given and no unexpected keyword
Binds(tool, args) ==
    /\ tool.kind \in {"function", "class"}
    /\ args.kind = "dict"
    /\ Required(tool.name) \subseteq DOMAIN args.value
    /\ DOMAIN args.value \subseteq Accepted(tool.name)

Arg(args, key, default) ==
    IF key \in DOMAIN args.value THEN args.value[key] ELSE default

\* the text handed to push by the called function
PushText(name, args) ==
    CASE name = "record_user_details" ->
            "Recording interest from " \o Arg(args, "name", "Name not provided")
            \o ", with " \o Arg(args, "email", NONE)
            \o ", and notes " \o Arg(args, "notes", "not provided")
      [] name = "record_unknown_question" ->
            "Recording " \o Arg(args, "question", NONE)
            \o " asked that I couldn't answer"
      [] OTHER -> Arg(args, "message", NONE)

\* what requests.post can do: a 2xx response, an error response (returned,
\* never inspected), or a transport error (raised)
PushOutcomes == {"delivered", "http_error", "transport_error"}

(***************************************************************************)
(* push, the two tools, and one iteration of handle_tool_calls.            *)
(***************************************************************************)
\* mutant: push only prints, the post is left out
PushPrintOnly(message, outcome) == [raised |-> "none", posts |-> <<>>]

\* push(message): one post; a transport error leaves as an exception of
\* requests, anything else returns None
Push(message, outcome) ==
    [raised |-> IF outcome = "transport_error" THEN "ConnectionError" ELSE "none",
     posts |-> << [message |-> message, outcome |-> outcome] >>]

\* tool(**arguments) for a truthy `tool`: the raised exception ("none" when
\* it returns), the returned value and the posts made
CallTool(tool, args, outcome) ==
    IF ~Binds(tool, args)
    THEN [raised |-> "TypeError", result |-> NoneResult, posts |-> <<>>]
    ELSE IF tool.kind = "class"
    THEN [raised |-> "none", result |-> MeObject, posts |-> <<>>]
    ELSE LET p == Push(PushText(tool.name, args), outcome)
         IN  [raised |-> p.raised,
              result |-> IF tool.name = "push" THEN NoneResult ELSE RecordedOk,
              posts |-> p.posts]

\* lines 99-101 for one tool call whose arguments parsed to args
Looked(call, args, outcome) ==
    LET tool == GlobalsGet(call.name)
    IN  IF ~Truthy(tool)
        THEN [raised |-> "none", content |-> JsonDumps(EmptyResult), posts |-> <<>>]
        ELSE LET c == CallTool(tool, args, outcome)
             IN  IF c.raised # "none"
                 THEN [raised |-> c.raised, content |-> NONE, posts |-> c.posts]
                 ELSE IF JsonDumps(c.result) = "error"
                 THEN [raised |-> "TypeError", content |-> NONE, posts |-> c.posts]
                 ELSE [raised |-> "none", content |-> JsonDumps(c.result),
                       posts |-> c.posts]

\* mutant: a parse error is caught and the call answered with an empty result
DispatchLenient(call, outcome) ==
    LET args == JsonLoads(call.arguments)
    IN  IF args.kind = "error"
        THEN [raised |-> "none", content |-> JsonDumps(EmptyResult), posts |-> <<>>]
        ELSE Looked(call, args, outcome)

\* the body of the for loop of handle_tool_calls for one tool call: the
\* exception that leaves it ("none" when the iteration completes), the content
\* of the tool message it appends and the posts it made
Dispatch(call, outcome) ==
    LET args == JsonLoads(call.arguments)
    IN  IF args.kind = "error"
        THEN [raised |-> "JSONDecodeError", content |-> NONE, posts |-> <<>>]
        ELSE Looked(call, args, outcome)

\* the dict appended to `results`
ToolMessage(call, content) ==
    [role |-> "tool", content |-> content, tool_call_id |-> call.id]

(***************************************************************************)
(* The messages of a chat turn.                                            *)
(***************************************************************************)
MeName == "Gennaro Rascato"

SystemPrompt(m) ==
    "You are acting as " \o m.name \o ". You are answering questions on "
    \o m.name \o "'s website,         particularly questions related to "
    \o m.name \o "'s career, background, skills and experience.         Your responsibility is to represent "
    \o m.name \o " for interactions on the website as faithfully as possible.         You are given a summary of "
    \o m.name \o "'s background and LinkedIn profile which you can use to answer questions.         Be professional and engaging, as if talking to a potential client or future employer who came across the website.         If you don't know the answer to any question, use your record_unknown_question tool to record the question that you couldn't answer, even if it's about something trivial or unrelated to career.         If the user is engaging in discussion, try to steer them towards getting in touch via email; ask for their email and record it using your record_user_details tool. "
    \o "\n\n## Summary:\n" \o m.summary \o "\n\n## LinkedIn Profile:\n"
    \o m.linkedin \o "\n\n"
    \o "With this context, please chat with the user, always staying in character as "
    \o m.name \o "."

SystemMessage(m) == [role |-> "system", content |-> SystemPrompt(m)]
UserMessage(text) == [role |-> "user", content |-> text]

\* messages = [system] + history + [user]
InitialMessages(m, hist, text) ==
    <<SystemMessage(m)>> \o hist \o <<UserMessage(text)>>

\* mutant: the two lines swapped, the results before the assistant's message
ExtendedResultsFirst(msgs, message, res) == (msgs \o res) \o <<message>>

\* messages.append(message); messages.extend(results)
Extended(msgs, message, res) == Append(msgs, message) \o res

(***************************************************************************)
(* The environment: the files at startup, the callers of chat and the      *)
(* responses of the completion endpoint.                                   *)
(***************************************************************************)
ProfilePages == <<"Software engineer. ", "", "MSc in computer science.">>
SummaryText == "I build backend systems."

FileStatus == {"ok", "missing", "unreadable"}
FsStates == [profile : FileStatus, summary : FileStatus]

\* the id of the i-th tool call of the round-th response to a turn: the
\* endpoint gives every call it asks for an id of its own
IdNames(round, i) == "call_" \o ToString(round) \o "_" \o ToString(i)

\* the ids the endpoint gives the n tool calls of one response
IdOrders(round, n) == { [i \in 1..n |-> IdNames(round, i)] }

\* the tool_calls lists of at most maxCalls calls over the given calls
ToolCallLists(calls, maxCalls, round) ==
    UNION { { [i \in 1..n |-> [id |-> ids[i], name |-> f[i].name,
                               arguments |-> f[i].arguments]] :
              f \in [1..n -> calls], ids \in IdOrders(round, n) } : n \in 0..maxCalls }

\* message.tool_calls is a list, or None: tool_calls_none, with the list <<>>
ToolResponse(tcs) ==
    [finish_reason |-> "tool_calls",
     message |-> [role |-> "assistant", content |-> NONE, tool_calls |-> tcs,
                  tool_calls_none |-> FALSE]]

\* finish reason "tool_calls" on a message whose tool_calls is None
ToolResponseNone ==
    [finish_reason |-> "tool_calls",
     message |-> [role |-> "assistant", content |-> NONE, tool_calls |-> <<>>,
                  tool_calls_none |-> TRUE]]

FinalResponse(reason, content) ==
    [finish_reason |-> reason,
     message |-> [role |-> "assistant", content |-> content, tool_calls |-> <<>>,
                  tool_calls_none |-> TRUE]]

\* what the endpoint may answer to the round-th request of a turn under the
\* inputs P
Responses(P, round) ==
    { ToolResponse(tcs) : tcs \in ToolCallLists(P.calls, P.maxCalls, round) }
    \cup { ToolResponseNone }
    \cup { FinalResponse(r, c) : r \in P.reasons, c \in P.contents }

\* the message each caller passes to chat
UserTexts ==
    [t \in Turns |-> IF t = "t1" THEN {"What do you do?"} ELSE {"Where do you live?"}]

PriorExchange ==
    << UserMessage("Hi"), [role |-> "assistant", content |-> "Hello, I am Gennaro."] >>

\* the inputs of the main runs: one call of each way a dispatch can end
MainInputs ==
    [calls |-> { [name |-> "record_unknown_question", arguments |-> "{\"question\": \"q\"}"],
                 [name |-> "record_user_details", arguments |-> "{\"question\": "],
                 [name |-> "record_user_details", arguments |-> "{\"question\": \"q\"}"],
                 [name |-> "send_email", arguments |-> "{}"] },
     maxCalls |-> MaxCalls,
     maxRounds |-> MaxRounds,
     outcomes |-> PushOutcomes,
     reasons |-> {"stop", "length"},
     contents |-> {"I am a software engineer.", NONE},
     texts |-> UserTexts,
     hists |-> [t \in Turns |-> {PriorExchange}]]

\* the inputs of the dispatch runs: every tool name with every argument text
DispatchInputs ==
    [calls |-> [name : ToolNames, arguments : ArgTexts],
     maxCalls |-> DispCalls,
     maxRounds |-> MaxRounds,
     outcomes |-> PushOutcomes,
     reasons |-> {"stop"},
     contents |-> {"I am a software engineer."},
     texts |-> UserTexts,
     hists |-> [t \in Turns |-> {<<>>}]]

\* the inputs of the runs in which the turn's thread keeps running
FairInputs ==
    [calls |-> { [name |-> "record_unknown_question", arguments |-> "{\"question\": \"q\"}"],
                 [name |-> "record_user_details", arguments |-> "{\"question\": "],
                 [name |-> "send_email", arguments |-> "{}"] },
     maxCalls |-> FairCalls,
     maxRounds |-> FairRounds,
     outcomes |-> {"delivered", "transport_error"},
     reasons |-> {"stop", "length"},
     contents |-> {"I am a software engineer."},
     texts |-> UserTexts,
     hists |-> [t \in Turns |-> {<<>>}]]

\* the inputs of the runs with two concurrent turns
ConcInputs ==
    [calls |-> { [name |-> "record_unknown_question", arguments |-> "{\"question\": \"q\"}"],
                 [name |-> "record_user_details", arguments |-> "{\"question\": "] },
     maxCalls |-> ConcCalls,
     maxRounds |-> ConcRounds,
     outcomes |-> {"delivered"},
     reasons |-> {"stop"},
     contents |-> {"I am a software engineer."},
     texts |-> UserTexts,
     hists |-> [t \in Turns |-> IF t = "t1" THEN {<<>>} ELSE {PriorExchange}]]

\* the inputs of the runs that follow the loop for more rounds
LoopInputs ==
    [calls |-> { [name |-> "record_unknown_question", arguments |-> "{\"question\": \"q\"}"],
                 [name |-> "record_user_details", arguments |-> "{\"question\": "],
                 [name |-> "send_email", arguments |-> "{}"] },
     maxCalls |-> LoopCalls,
     maxRounds |-> LoopRounds,
     outcomes |-> {"delivered", "transport_error"},
     reasons |-> {"stop", "length"},
     contents |-> {"I am a software engineer."},
     texts |-> UserTexts,
     hists |-> [t \in Turns |-> {<<>>}]]

(***************************************************************************)
(* Startup: Me.__init__ and the __main__ script.                           *)
(***************************************************************************)
RECURSIVE ExtractText(_)
\* for page in reader.pages: text = page.extract_text(); if text: += text
ExtractText(pages) ==
    IF pages = <<>> THEN ""
    ELSE IF Head(pages) # "" THEN Head(pages) \o ExtractText(Tail(pages))
    ELSE ExtractText(Tail(pages))

\* mutant: a failed read is swallowed and startup goes on
AfterReadLenient(status, next) == next

\* where __main__ is after a read of a file in the given status
AfterRead(status, next) == IF status = "ok" THEN next ELSE "aborted"

Init ==
    /\ fs \in FsStates
    /\ phase = "start"
    /\ me = [name |-> MeName, linkedin |-> "", summary |-> ""]
    /\ pc = [t \in Turns |-> "idle"]
    /\ history = [t \in Turns |-> <<>>]
    /\ usermsg = [t \in Turns |-> NONE]
    /\ messages = [t \in Turns |-> <<>>]
    /\ response = [t \in Turns |-> FinalResponse(NONE, NONE)]
    /\ idx = [t \in Turns |-> 0]
    /\ results = [t \in Turns |-> <<>>]
    /\ err = [t \in Turns |-> "none"]
    /\ answer = [t \in Turns |-> NONE]
    /\ sent = [t \in Turns |-> <<>>]
    /\ received = [t \in Turns |-> <<>>]
    /\ pushed = [t \in Turns |-> <<>>]

turnvars == <<pc, history, usermsg, messages, response, idx, results, err,
              answer, sent, received, pushed>>

\* PdfReader(self.profile_path) and the page loop
ReadProfile ==
    /\ phase = "start"
    /\ phase' = AfterRead(fs.profile, "profile_read")
    /\ me' = IF fs.profile = "ok"
             THEN [me EXCEPT !.linkedin = ExtractText(ProfilePages)]
             ELSE me
    /\ UNCHANGED <<fs, turnvars>>

\* open(summary_path) and f.read()
ReadSummary ==
    /\ phase = "profile_read"
    /\ phase' = AfterRead(fs.summary, "constructed")
    /\ me' = IF fs.summary = "ok" THEN [me EXCEPT !.summary = SummaryText] ELSE me
    /\ UNCHANGED <<fs, turnvars>>

\* the gr.Blocks block
BuildUI ==
    /\ phase = "constructed"
    /\ phase' = "ui_built"
    /\ UNCHANGED <<fs, me, turnvars>>

\* demo.launch()
Launch ==
    /\ phase = "ui_built"
    /\ phase' = "serving"
    /\ UNCHANGED <<fs, me, turnvars>>

Startup == ReadProfile \/ ReadSummary \/ BuildUI \/ Launch

(***************************************************************************)
(* Me.chat, one action per step of a turn t under the inputs P.            *)
(***************************************************************************)
\* mutant: the list kept on the instance (self.messages), one for all turns
SetShared(all, t, value) == [u \in DOMAIN all |-> value]

\* `messages` is a local of the call: a turn writes its own list only
SetLocal(all, t, value) == [all EXCEPT ![t] = value]

\* mutant: no loop, chat returns after the first response whatever it asks
AfterResponseNoLoop(finish_reason) == "done"

\* mutant: the loop ends on "stop" only, not on every reason but "tool_calls"
AfterResponseStopOnly(finish_reason) ==
    IF finish_reason = "stop" THEN "done" ELSE "dispatching"

\* where chat goes on a response: into handle_tool_calls, or out of the loop
AfterResponse(finish_reason) ==
    IF finish_reason = "tool_calls" THEN "dispatching" ELSE "done"

\* return response.choices[0].message.content
Returned(resp) == resp.message.content

\* the UI calls chat(message, history); chat builds `messages`
ChatCall(t, P) ==
    /\ phase = "serving"
    /\ pc[t] = "idle"
    /\ \E text \in P.texts[t], hist \in P.hists[t] :
          /\ usermsg' = [usermsg EXCEPT ![t] = text]
          /\ history' = [history EXCEPT ![t] = hist]
          /\ messages' = SetLocal(messages, t, InitialMessages(me, hist, text))
    /\ pc' = [pc EXCEPT ![t] = "awaiting"]
    /\ UNCHANGED <<fs, phase, me, response, idx, results, err, answer, sent,
                   received, pushed>>

\* self.openai.chat.completions.create(...) is called: the request leaves with
\* the messages of this moment, and the turn waits for the endpoint
SendRequest(t) ==
    /\ pc[t] = "awaiting"
    /\ sent' = [sent EXCEPT ![t] = Append(@, messages[t])]
    /\ pc' = [pc EXCEPT ![t] = "waiting"]
    /\ UNCHANGED <<fs, phase, me, history, usermsg, messages, response, idx,
                   results, err, answer, received, pushed>>

\* the call returns a response (the model follows P.maxRounds of them, and
\* leaves a later request unanswered, the turn blocked in the call); chat reads finish_reason and either enters
\* handle_tool_calls (results=[]) or leaves the loop and returns the content
ReceiveResponse(t, P) ==
    /\ pc[t] = "waiting"
    /\ Len(received[t]) < P.maxRounds
    /\ \E r \in Responses(P, Len(received[t]) + 1) :
          /\ response' = [response EXCEPT ![t] = r]
          /\ received' = [received EXCEPT ![t] = Append(@, r)]
          /\ pc' = [pc EXCEPT ![t] = AfterResponse(r.finish_reason)]
          /\ answer' = [answer EXCEPT ![t] =
                           IF AfterResponse(r.finish_reason) = "done"
                           THEN Returned(r) ELSE @]
    /\ idx' = [idx EXCEPT ![t] = 1]
    /\ results' = [results EXCEPT ![t] = <<>>]
    /\ UNCHANGED <<fs, phase, me, history, usermsg, messages, err, sent, pushed>>

\* the call raises instead of returning
RequestFails(t) ==
    /\ pc[t] = "waiting"
    /\ pc' = [pc EXCEPT ![t] = "failed"]
    /\ err' = [err EXCEPT ![t] = "APIError"]
    /\ UNCHANGED <<fs, phase, me, history, usermsg, messages, response, idx,
                   results, answer, sent, received, pushed>>

\* `for tool_call in tool_calls` with tool_calls None
IterateNone(t) ==
    /\ pc[t] = "dispatching"
    /\ response[t].message.tool_calls_none
    /\ pc' = [pc EXCEPT ![t] = "failed"]
    /\ err' = [err EXCEPT ![t] = "TypeError"]
    /\ UNCHANGED <<fs, phase, me, history, usermsg, messages, response, idx,
                   results, answer, sent, received, pushed>>

\* what one completed or raising iteration leaves in the locals of the turn
Iterated(t, call, d) ==
    IF d.raised # "none"
    THEN /\ pc' = [pc EXCEPT ![t] = "failed"]
         /\ err' = [err EXCEPT ![t] = d.raised]
         /\ UNCHANGED <<idx, results>>
    ELSE /\ results' = [results EXCEPT ![t] = Append(@, ToolMessage(call, d.content))]
         /\ idx' = [idx EXCEPT ![t] = @ + 1]
         /\ pc' = [pc EXCEPT ![t] = "dispatching"]
         /\ UNCHANGED err

\* the post of push, on its way: requests.post has not returned yet
InFlight(posts) == [j \in 1..Len(posts) |-> [posts[j] EXCEPT !.outcome = "in_flight"]]

\* one iteration of the for loop of handle_tool_calls, up to the point where
\* it blocks in requests.post; an iteration that makes no post runs through
DispatchOne(t) ==
    /\ pc[t] = "dispatching"
    /\ ~response[t].message.tool_calls_none
    /\ idx[t] <= Len(response[t].message.tool_calls)
    /\ LET call == response[t].message.tool_calls[idx[t]]
           d == Dispatch(call, "delivered")
       IN  IF d.posts # <<>>
           THEN /\ pushed' = [pushed EXCEPT ![t] = @ \o InFlight(d.posts)]
                /\ pc' = [pc EXCEPT ![t] = "posting"]
                /\ UNCHANGED <<idx, results, err>>
           ELSE /\ Iterated(t, call, d)
                /\ UNCHANGED pushed
    /\ UNCHANGED <<fs, phase, me, history, usermsg, messages, response, answer,
                   sent, received>>

\* requests.post returns or raises, and the iteration runs to its end
PostReturns(t, P) ==
    /\ pc[t] = "posting"
    /\ \E outcome \in P.outcomes :
          LET call == response[t].message.tool_calls[idx[t]]
              d == Dispatch(call, outcome)
              made == Len(pushed[t]) - Len(d.posts)
          IN  /\ pushed' = [pushed EXCEPT ![t] = SubSeq(@, 1, made) \o d.posts]
              /\ Iterated(t, call, d)
    /\ UNCHANGED <<fs, phase, me, history, usermsg, messages, response, answer,
                   sent, received>>

\* handle_tool_calls returns; messages.append(message); messages.extend(results)
AppendRound(t) ==
    /\ pc[t] = "dispatching"
    /\ ~response[t].message.tool_calls_none
    /\ idx[t] > Len(response[t].message.tool_calls)
    /\ messages' = SetLocal(messages, t,
                            Extended(messages[t], response[t].message, results[t]))
    /\ pc' = [pc EXCEPT ![t] = "awaiting"]
    /\ UNCHANGED <<fs, phase, me, history, usermsg, response, idx, results, err,
                   answer, sent, received, pushed>>

Turn(t, P) ==
    \/ ChatCall(t, P)
    \/ SendRequest(t)
    \/ ReceiveResponse(t, P)
    \/ RequestFails(t)
    \/ IterateNone(t)
    \/ DispatchOne(t)
    \/ PostReturns(t, P)
    \/ AppendRound(t)

(***************************************************************************)
(* The specifications.                                                     *)
(***************************************************************************)
\* one chat turn
Next == Startup \/ Turn("t1", MainInputs)
Spec == Init /\ [][Next]_vars

\* one chat turn, every tool name with every argument text
DispatchNext == Startup \/ Turn("t1", DispatchInputs)
DispatchSpec == Init /\ [][DispatchNext]_vars

\* two chat turns on the same Me instance, interleaved step by step
ConcNext == Startup \/ \E t \in Turns : Turn(t, ConcInputs)
ConcSpec == Init /\ [][ConcNext]_vars

\* one chat turn followed for more rounds
LoopNext == Startup \/ Turn("t1", LoopInputs)
LoopSpec == Init /\ [][LoopNext]_vars

\* the steps of a turn that are the code's own: they call nothing that blocks,
\* so the thread that runs the turn takes them once it is scheduled
OwnSteps(t) == SendRequest(t) \/ IterateNone(t) \/ DispatchOne(t) \/ AppendRound(t)

\* one chat turn whose thread keeps running: its own steps are eventually
\* taken; whether the UI calls chat, and whether completions.create and
\* requests.post ever return or raise, is left open (neither call is given a
\* timeout)
FairNext == Startup \/ Turn("t1", FairInputs)
FairSpec == Init /\ [][FairNext]_vars /\ WF_vars(OwnSteps("t1"))

(***************************************************************************)
(* Definitions the properties share.                                       *)
(***************************************************************************)
Last(seq) == seq[Len(seq)]

IsToolResponse(r) == r.finish_reason = "tool_calls"

\* the requests of turn t that the endpoint answered with tool calls
ToolRounds(t) == { k \in 1..Len(received[t]) : IsToolResponse(received[t][k]) }

RECURSIVE CallsUpTo(_, _)
\* the number of tool calls requested by the first k responses to turn t
CallsUpTo(t, k) ==
    IF k = 0 THEN 0
    ELSE CallsUpTo(t, k - 1) + Len(received[t][k].message.tool_calls)

ToolPositions(msgs) == { j \in 1..Len(msgs) : msgs[j].role = "tool" }

Malformed(call) == JsonLoads(call.arguments).kind = "error"

MalformedAt(r) ==
    { i \in 1..Len(r.message.tool_calls) : Malformed(r.message.tool_calls[i]) }

\* the turn is inside handle_tool_calls, or an exception left it there
InDispatch(t) ==
    pc[t] \in {"dispatching", "posting"} \/ (pc[t] = "failed" /\ err[t] # "APIError")

\* the exception left the loop header: tool_calls is None, no call was reached
NoCalls(t) == response[t].message.tool_calls_none

\* the notification the call makes when it reaches push, <<>> when it does not
PostsOf(call) ==
    LET args == JsonLoads(call.arguments)
        tool == GlobalsGet(call.name)
    IN  IF args.kind # "error" /\ tool.kind = "function" /\ Binds(tool, args)
        THEN << PushText(call.name, args) >>
        ELSE <<>>

RECURSIVE PostsOfCalls(_, _)
\* the notifications of the first n calls of a list, in list order
PostsOfCalls(calls, n) ==
    IF n = 0 THEN <<>> ELSE PostsOfCalls(calls, n - 1) \o PostsOf(calls[n])

RECURSIVE PostsOfRounds(_, _)
\* the notifications of all the calls of the first k responses to turn t
PostsOfRounds(t, k) ==
    IF k = 0 THEN <<>>
    ELSE PostsOfRounds(t, k - 1)
         \o PostsOfCalls(received[t][k].message.tool_calls,
                         Len(received[t][k].message.tool_calls))

PostedTexts(t) == [j \in 1..Len(pushed[t]) |-> pushed[t][j].message]

(***************************************************************************)
(* C1: whenever a response requests tool calls c1..cN, the next request    *)
(* carries the previous request's messages, then the assistant's tool-call  *)
(* message, then exactly N tool messages, the i-th with the id of ci; and  *)
(* in every request of a turn, after any number of rounds, each tool call  *)
(* requested by any earlier response has exactly one tool message with its *)
(* id, and there is no other tool message.                                 *)
(***************************************************************************)
\* the positions in msgs of the tool messages that answer the call of this id
ResultsOf(msgs, id) ==
    { j \in ToolPositions(msgs) : msgs[j].tool_call_id = id }

C1_NextRequestCarriesResults ==
    \A t \in Turns : \A k \in 1..Len(sent[t]) :
        /\ Cardinality(ToolPositions(sent[t][k])) = CallsUpTo(t, k - 1)
        /\ \A j \in 1..(k - 1) :
              \A i \in 1..Len(received[t][j].message.tool_calls) :
                 Cardinality(ResultsOf(sent[t][k],
                                       received[t][j].message.tool_calls[i].id)) = 1
        /\ k > 1 =>
             LET prev == sent[t][k - 1]
                 req == sent[t][k]
                 r == received[t][k - 1]
                 calls == r.message.tool_calls
             IN  /\ IsToolResponse(r)
                 /\ Len(req) = Len(prev) + 1 + Len(calls)
                 /\ SubSeq(req, 1, Len(prev)) = prev
                 /\ req[Len(prev) + 1] = r.message
                 /\ \A i \in 1..Len(calls) :
                       /\ req[Len(prev) + 1 + i].role = "tool"
                       /\ req[Len(prev) + 1 + i].tool_call_id = calls[i].id

\* a fourth request was sent after three responses that each asked for two
\* tool calls: it carries the six results of three rounds
C1_Witness ==
    /\ Len(sent["t1"]) = 4
    /\ \A j \in 1..3 : Len(received["t1"][j].message.tool_calls) = 2
    /\ Cardinality(ToolPositions(sent["t1"][4])) = 6

(***************************************************************************)
(* C2: a turn that returns has sent exactly one request more than it got   *)
(* responses asking for tool calls, every request was answered, and the    *)
(* value returned is the content of the last response's message.           *)
(***************************************************************************)
C2_RoundTripsAndAnswer ==
    \A t \in Turns :
        pc[t] = "done" =>
            /\ Len(sent[t]) = Cardinality(ToolRounds(t)) + 1
            /\ Len(received[t]) = Len(sent[t])
            /\ ~IsToolResponse(Last(received[t]))
            /\ answer[t] = Last(received[t]).message.content

\* the turn returned after one response with two tool calls and a final one
C2_Witness ==
    /\ pc["t1"] = "done"
    /\ Len(sent["t1"]) = 2
    /\ Len(received["t1"][1].message.tool_calls) = 2
    /\ answer["t1"] = "I am a software engineer."

(***************************************************************************)
(* C6: when a response asks for a tool call whose arguments are not valid  *)
(* JSON, no further request is sent, chat returns nothing, the loop of     *)
(* handle_tool_calls never gets past that call, and `messages` stays what  *)
(* the last request carried: neither the assistant's message nor a tool    *)
(* message of that round is added.                                         *)
(***************************************************************************)
C6_MalformedArgumentsEndTheTurn ==
    \A t \in Turns : \A k \in 1..Len(received[t]) :
        LET r == received[t][k]
        IN  (IsToolResponse(r) /\ MalformedAt(r) # {}) =>
                /\ k = Len(received[t])
                /\ Len(sent[t]) = k
                /\ pc[t] \in {"dispatching", "posting", "failed"}
                /\ \A i \in MalformedAt(r) : idx[t] <= i
                /\ pc[t] = "failed" => err[t] # "none"
                /\ messages[t] = sent[t][k]
                /\ ToolPositions(messages[t]) = ToolPositions(sent[t][k])

\* the second call of a response had malformed arguments: the first call ran,
\* then the parse error left chat
C6_Witness ==
    /\ pc["t1"] = "failed"
    /\ err["t1"] = "JSONDecodeError"
    /\ idx["t1"] = 2
    /\ Len(results["t1"]) = 1
    /\ Malformed(response["t1"].message.tool_calls[2])

(***************************************************************************)
(* C10: inside handle_tool_calls the calls run in list order and before    *)
(* the assistant's message is appended: when the loop stands at call i,    *)
(* the posts made are exactly those of the earlier rounds and of calls     *)
(* 1..i-1, in list order (with the post of call i while it is on its way), *)
(* `results` holds their i-1 tool messages in                              *)
(* order, and `messages` is still what the last request carried; when call *)
(* i raises, the posts of calls 1..i-1 stay made (with the post of call i  *)
(* itself when it is that post that raised) and no later call has run.     *)
(***************************************************************************)
C10_DispatchInListOrder ==
    \A t \in Turns :
        InDispatch(t) =>
            LET calls == response[t].message.tool_calls
                k == Len(received[t])
                before == PostsOfRounds(t, k - 1) \o PostsOfCalls(calls, idx[t] - 1)
            IN  /\ idx[t] \in 1..(Len(calls) + 1)
                /\ Len(results[t]) = idx[t] - 1
                /\ \A i \in 1..Len(results[t]) :
                      results[t][i].tool_call_id = calls[i].id
                /\ messages[t] = sent[t][k]
                /\ pc[t] = "dispatching" => PostedTexts(t) = before
                /\ pc[t] = "posting" =>
                      /\ idx[t] <= Len(calls)
                      /\ PostedTexts(t) = before \o PostsOf(calls[idx[t]])
                /\ (pc[t] = "failed" /\ NoCalls(t)) => PostedTexts(t) = before
                /\ (pc[t] = "failed" /\ ~NoCalls(t)) =>
                      /\ idx[t] <= Len(calls)
                      /\ PostedTexts(t) =
                            IF err[t] = "ConnectionError"
                            THEN before \o PostsOf(calls[idx[t]])
                            ELSE before

\* the first call posted its notification, the second raised: the post stays
C10_Witness ==
    /\ pc["t1"] = "failed"
    /\ err["t1"] \in {"JSONDecodeError", "TypeError"}
    /\ idx["t1"] = 2
    /\ Len(pushed["t1"]) = 1

(***************************************************************************)
(* C9: the UI is built, launched and serving chat turns only when both     *)
(* profile sources were read; with either of them missing or unreadable    *)
(* the script aborts inside Me.__init__ and no chat turn ever starts.      *)
(***************************************************************************)
C9_UiOnlyAfterBothReads ==
    /\ (phase \in {"ui_built", "serving"} \/ \E t \in Turns : pc[t] # "idle") =>
          /\ fs.profile = "ok"
          /\ fs.summary = "ok"
          /\ me.linkedin = ExtractText(ProfilePages)
          /\ me.summary = SummaryText
    /\ (fs.profile # "ok" \/ fs.summary # "ok") =>
          /\ phase \in {"start", "profile_read", "aborted"}
          /\ \A t \in Turns : pc[t] = "idle"
    /\ (fs.profile # "ok" /\ phase # "start") => phase = "aborted"

\* the profile document was read, the summary file is missing: aborted
C9_Witness ==
    /\ fs.profile = "ok"
    /\ fs.summary = "missing"
    /\ phase = "aborted"
    /\ me.linkedin # ""

(***************************************************************************)
(* C4 (as claimed): a failed delivery of a notification, by an error       *)
(* response or by a transport error, never ends the turn: the exception    *)
(* that leaves chat is never the one of the post.                          *)
(***************************************************************************)
C4_DeliveryFailureNeverSurfaces ==
    \A t \in Turns :
        (pushed[t] # <<>>
         /\ Last(pushed[t]).outcome \in {"http_error", "transport_error"}) =>
            ~(pc[t] = "failed" /\ err[t] = "ConnectionError")

(***************************************************************************)
(* C7: a turn is DONE exactly when the last response it received has a     *)
(* finish reason other than "tool_calls". The loop has no iteration bound: *)
(* at the top of the loop the request can be sent whatever the number of   *)
(* rounds before it, the only step from there sends it, and a running turn *)
(* does send it; a running turn inside handle_tool_calls reaches the top   *)
(* of the loop again, a raise, or a notification post that is under way.   *)
(* So a turn whose every response asks for tools sends a further request   *)
(* after each of them and never returns. Nothing is claimed about a        *)
(* request or a post that neither returns nor raises: the turn stays       *)
(* blocked in it.                                                          *)
(***************************************************************************)
C7_DoneIffFinalResponse ==
    /\ [](\A t \in Turns :
             /\ pc[t] = "done" <=>
                   (received[t] # <<>> /\ ~IsToolResponse(Last(received[t])))
             /\ pc[t] = "awaiting" => ENABLED SendRequest(t))
    /\ [][\A t \in Turns :
             (pc[t] = "awaiting" /\ pc'[t] # "awaiting") =>
                (pc'[t] = "waiting" /\ Len(sent'[t]) = Len(sent[t]) + 1)]_vars
    /\ \A t \in {"t1"} : (pc[t] = "awaiting") ~> (pc[t] = "waiting")
    /\ \A t \in {"t1"} :
          (pc[t] = "dispatching") ~> (pc[t] \in {"posting", "awaiting", "failed"})

\* two responses asked for tools and their calls completed: the turn has
\* sent its third request, waits for the endpoint, and has not returned
C7_Witness ==
    /\ pc["t1"] = "waiting"
    /\ Len(sent["t1"]) = 3
    /\ ToolRounds("t1") = {1, 2}
    /\ \A j \in 1..2 : received["t1"][j].message.tool_calls # <<>>
    /\ answer["t1"] = NONE

(***************************************************************************)
(* C8: under every interleaving of two turns on the same Me instance, the  *)
(* messages of a turn and of each of its requests are its own: the system  *)
(* message, the history and the user message of its caller, then, round by *)
(* round, the assistant message and the tool messages of the responses to  *)
(* its own requests; it returns the content of the last response to its    *)
(* own request; and no step changes the profile or a caller's history.     *)
(***************************************************************************)
RECURSIVE OwnToolMessages(_, _)
\* the tool messages of the first n calls of a list that all complete
OwnToolMessages(calls, n) ==
    IF n = 0 THEN <<>>
    ELSE Append(OwnToolMessages(calls, n - 1),
                ToolMessage(calls[n], Dispatch(calls[n], "delivered").content))

RECURSIVE OwnMessages(_, _)
\* what turn t alone holds in `messages` after k completed rounds
OwnMessages(t, k) ==
    IF k = 0 THEN InitialMessages(me, history[t], usermsg[t])
    ELSE Extended(OwnMessages(t, k - 1), received[t][k].message,
                  OwnToolMessages(received[t][k].message.tool_calls,
                                  Len(received[t][k].message.tool_calls)))

\* the rounds of turn t whose results are in `messages`
RoundsAppended(t) ==
    IF InDispatch(t) THEN Len(received[t]) - 1
    ELSE IF pc[t] = "done" THEN Cardinality(ToolRounds(t))
    ELSE Len(received[t])

\* C8, the state part: what a turn holds, sends and returns is its own
C8_TurnsIsolated ==
    \A t \in Turns :
        pc[t] # "idle" =>
            /\ messages[t] = OwnMessages(t, RoundsAppended(t))
            /\ \A k \in 1..Len(sent[t]) : sent[t][k] = OwnMessages(t, k - 1)
            /\ pc[t] = "done" => answer[t] = Last(received[t]).message.content
            /\ me = [name |-> MeName, linkedin |-> ExtractText(ProfilePages),
                     summary |-> SummaryText]

\* C8, the step part: no step changes the profile or a started turn's history
C8_ProfileAndHistoryUnchanged ==
    \A t \in Turns : pc[t] # "idle" => (me' = me /\ history'[t] = history[t])

\* C8: concurrent turns on one Me instance do not interfere, and change neither
\* the profile nor the history lists of their callers
C8_ConcurrentTurnsSafe ==
    []C8_TurnsIsolated /\ [][C8_ProfileAndHistoryUnchanged]_vars

\* both turns are under way: one has appended a round of tool results and
\* waits for the answer to its second request, the other is inside push,
\* waiting for requests.post
C8_Witness ==
    /\ pc["t1"] = "waiting"
    /\ Len(sent["t1"]) = 2
    /\ Len(messages["t1"]) > Len(sent["t1"][1]) + 1
    /\ pc["t2"] = "posting"
    /\ idx["t2"] = 1
    /\ history["t1"] # history["t2"]

(***************************************************************************)
(* C3 (as claimed): a tool call whose name is not a registered tool, and   *)
(* whose arguments are valid JSON, gets the empty result object, makes no  *)
(* post and raises nothing.                                                *)
(***************************************************************************)
Unregistered(call) == call.name \notin RegisteredTools /\ ~Malformed(call)

\* C3 (as claimed): an unregistered tool name yields "{}", no post, no raise
C3_UnregisteredNameIsNoOp ==
    \A t \in Turns :
        InDispatch(t) =>
            LET calls == response[t].message.tool_calls
            IN  /\ \A i \in 1..Len(results[t]) :
                      Unregistered(calls[i]) => results[t][i].content = "{}"
                /\ (Len(received[t]) = 1 /\ \A i \in 1..Len(calls) : Unregistered(calls[i]))
                      => pushed[t] = <<>>
                /\ (pc[t] = "failed" /\ ~NoCalls(t)) => ~Unregistered(calls[idx[t]])

(***************************************************************************)
(* C5 (as claimed): a call of a registered tool with arguments matching    *)
(* the tool's declared schema makes one post, the one of that tool, and    *)
(* produces the tool result {"recorded": "ok"}.                            *)
(***************************************************************************)
\* "required" and "properties" of record_user_details_json and
\* record_unknown_question_json ("additionalProperties": False)
SchemaRequired(name) ==
    IF name = "record_user_details" THEN {"email"} ELSE {"question"}

SchemaProperties(name) ==
    IF name = "record_user_details" THEN {"email", "name", "notes"} ELSE {"question"}

SchemaValid(call) ==
    LET args == JsonLoads(call.arguments)
    IN  /\ call.name \in RegisteredTools
        /\ args.kind = "dict"
        /\ SchemaRequired(call.name) \subseteq DOMAIN args.value
        /\ DOMAIN args.value \subseteq SchemaProperties(call.name)

\* C5 (as claimed): a schema-valid call of a registered tool makes that tool's
\* one post and yields the tool result {"recorded": "ok"}
C5_ValidCallRecordsOk ==
    \A t \in Turns :
        (InDispatch(t) /\ Len(received[t]) = 1) =>
            LET calls == response[t].message.tool_calls
            IN  \A i \in 1..Len(calls) :
                    (SchemaValid(calls[i]) /\ i <= idx[t]
                     /\ \A j \in 1..(i - 1) : SchemaValid(calls[j])) =>
                        /\ i < idx[t] =>
                              /\ results[t][i].content = "{\"recorded\": \"ok\"}"
                              /\ PostedTexts(t)[i] = PushText(calls[i].name,
                                                              JsonLoads(calls[i].arguments))
                        /\ i = idx[t] => pc[t] # "failed"

====
